---- MODULE Spec2Model ----
(***************************************************************************)
(* Tool Invocation Engine of gpt-oss: the tool registry's safe dispatch    *)
(* (backend/tools/base.py), the prioritized strategy chain of the          *)
(* production proxy (backend/production_tool_proxy.py) and the response    *)
(* processing of the agent backend (backend/agent_backend.py).             *)
(*                                                                         *)
(* All coroutines run on one asyncio event loop: the code between two      *)
(* awaits is one atomic step, and every await is a point where other       *)
(* tasks may run.                                                          *)
(***************************************************************************)
EXTENDS Integers, Sequences, FiniteSets, TLC

(***************************************************************************)
(* Bounds of the model.                                                    *)
(***************************************************************************)
NumTasks == 2
MaxCalls == 3
MaxResets == 1
MaxParams == 2
MaxValidationCalls == 2
MaxToolCalls == 2
MaxMatches == 2
MaxRegisters == 2
MaxUnregisters == 1
MaxCatalogCalls == 1

Tasks == 1..NumTasks

(***************************************************************************)
(* Python values.  A parameter value is represented by its Python class;   *)
(* bool is a subclass of int, which isinstance observes.                   *)
(***************************************************************************)
None == "None"
NoError == << >>
PyTypes == {"str", "int", "float", "bool", "list", "dict", "NoneType"}

isinstance(cls, classes) ==
    \/ cls \in classes
    \/ cls = "bool" /\ "int" \in classes

(***************************************************************************)
(* ToolStatus and ToolResult.                                              *)
(***************************************************************************)
ToolStatus == {"success", "error", "partial", "timeout"}

ToolResult(status, data, error) ==
    [status |-> status, data |-> data, error |-> error]

NoResult == [status |-> "none", data |-> None, error |-> NoError]

(***************************************************************************)
(* The shipped tools the registry holds, with the schema each get_schema   *)
(* returns (required list in order, declared type of each property) and    *)
(* the timeout each constructor sets, as str() prints it.                  *)
(***************************************************************************)
ToolNames == {"calculator", "process_list", "file_list", "json_parse"}

\* Tool objects.  The object initialize_tools constructs for a tool is
\* written as the tool's name; ReplacementTools are further instances a
\* caller constructs (CalculatorTool(), JSONParseTool()).  Every object has
\* its own counters.
ReplacementTools == {"calculator_2", "json_parse_2"}
ToolObjects == ToolNames \cup ReplacementTools

\* Tool.name
NameOf(tool) ==
    CASE tool = "calculator_2" -> "calculator"
      [] tool = "json_parse_2" -> "json_parse"
      [] OTHER -> tool

\* the categories initialize_tools registers the tools in, and the default
\* category of register
CategoryOf(name) ==
    CASE name = "calculator" -> "math"
      [] name = "process_list" -> "system"
      [] name = "file_list" -> "file"
      [] name = "json_parse" -> "data"

Categories == {"file", "system", "math", "data", "general"}

\* dict.values()
values(d) == {d[k] : k \in DOMAIN d}

calculator_schema ==
    [required |-> << >>,
     properties |-> [expression |-> "string", operation |-> "string",
                     values |-> "array"]]

process_list_schema ==
    [required |-> << >>,
     properties |-> [sort_by |-> "string", limit |-> "number"]]

file_list_schema ==
    [required |-> <<"directory">>,
     properties |-> [directory |-> "string", pattern |-> "string",
                     recursive |-> "boolean"]]

json_parse_schema ==
    [required |-> <<"json_string">>,
     properties |-> [json_string |-> "string", validate_schema |-> "object"]]

get_schema(name) ==
    CASE name = "calculator" -> calculator_schema
      [] name = "process_list" -> process_list_schema
      [] name = "file_list" -> file_list_schema
      [] name = "json_parse" -> json_parse_schema

timeout(name) == "5.0"

(***************************************************************************)
(* Keyword arguments: an ordered map, a sequence of <<key, class>> pairs   *)
(* with distinct keys, in the order the caller gave them.                  *)
(***************************************************************************)
Keys(name) == DOMAIN get_schema(name).properties

HasKey(params, key) == \E k \in 1..Len(params) : params[k][1] = key

Kwargs(keys) ==
    {p \in UNION {[1..n -> keys \X PyTypes] : n \in 0..MaxParams} :
        \A a, b \in 1..Len(p) : a # b => p[a][1] # p[b][1]}

(***************************************************************************)
(* Tool.validate_params: the first missing required parameter in the       *)
(* order of the required list, else the first parameter, in the order of   *)
(* the call, whose value fails the isinstance test of its declared type.   *)
(***************************************************************************)
TypeMismatch(expected_type, cls) ==
    \/ expected_type = "string" /\ ~isinstance(cls, {"str"})
    \/ expected_type = "number" /\ ~isinstance(cls, {"int", "float"})
    \/ expected_type = "boolean" /\ ~isinstance(cls, {"bool"})
    \/ expected_type = "array" /\ ~isinstance(cls, {"list"})
    \/ expected_type = "object" /\ ~isinstance(cls, {"dict"})

TypeWord(expected_type) ==
    CASE expected_type = "string" -> " must be a string"
      [] expected_type = "number" -> " must be a number"
      [] expected_type = "boolean" -> " must be a boolean"
      [] expected_type = "array" -> " must be an array"
      [] expected_type = "object" -> " must be an object"

validate_params(name, params) ==
    LET schema == get_schema(name)
        required == schema.required
        properties == schema.properties
        missing == {r \in 1..Len(required) : ~HasKey(params, required[r])}
        bad == {k \in 1..Len(params) :
                  /\ params[k][1] \in DOMAIN properties
                  /\ TypeMismatch(properties[params[k][1]], params[k][2])}
        first(S) == CHOOSE m \in S : \A o \in S : m <= o
    IN  IF missing # {}
        THEN <<"Missing required parameter: ", required[first(missing)]>>
        ELSE IF bad # {}
        THEN <<"Parameter ", params[first(bad)][1],
               TypeWord(properties[params[first(bad)][1]])>>
        ELSE NoError

(***************************************************************************)
(* What a tool's execute can do once entered: return a ToolResult, or      *)
(* raise.  A fault is the class it is caught as and its message.           *)
(***************************************************************************)
ExecuteResults(tool) ==
    { ToolResult("success", "data", NoError),
      ToolResult("error", None, <<"tool error">>) }
    \cup (IF NameOf(tool) = "json_parse"
          THEN {ToolResult("partial", "data", <<"Missing required field: ", "f">>)}
          ELSE {})

\* asyncio.TimeoutError is the builtin TimeoutError; every other fault a
\* tool raises is caught as Exception
Faults == [cls : {"Exception", "TimeoutError"}, msg : {<<"boom">>}]

VARIABLES
    \* ToolRegistry._tools: the Tool object registered under each name
    _tools,
    \* ToolRegistry._categories: the list of names of each category
    _categories,
    \* register and unregister calls made so far, and the last of them with
    \* the value it returned
    registers, unregisters, last_call,
    \* Tool._usage_count, _success_count, _error_count, _last_used per tool
    _usage_count, _success_count, _error_count, _last_used,
    \* datetime.now(), a logical clock
    now,
    \* the execute_tool coroutines: position, tool, result returned
    task,
    \* how often each tool's execute was called (side-effect counter)
    execute_entered,
    \* execute_tool and reset_stats calls made so far
    calls, resets

catalog == <<_tools, _categories, registers, unregisters, last_call>>

registryVars == <<catalog, _usage_count, _success_count, _error_count,
                  _last_used, now, task, execute_entered, calls, resets>>

stats == <<_usage_count, _success_count, _error_count, _last_used>>

InitRegistry ==
    /\ _tools = [n \in ToolNames |-> n]
    /\ _categories = [c \in {CategoryOf(n) : n \in ToolNames} |->
                         <<CHOOSE n \in ToolNames : CategoryOf(n) = c>>]
    /\ registers = 0
    /\ unregisters = 0
    /\ last_call = [op |-> "none", name |-> None, returned |-> FALSE]
    /\ _usage_count = [t \in ToolObjects |-> 0]
    /\ _success_count = [t \in ToolObjects |-> 0]
    /\ _error_count = [t \in ToolObjects |-> 0]
    /\ _last_used = [t \in ToolObjects |-> 0]
    /\ now = 1
    /\ task = [i \in Tasks |-> [pc |-> "idle", name |-> None, tool |-> None,
                                  result |-> NoResult]]
    /\ execute_entered = [t \in ToolObjects |-> 0]
    /\ calls = 0
    /\ resets = 0

\* a lookup that falls back to some registered tool for an unknown name
get_tool_default(name) ==
    IF name \in DOMAIN _tools THEN _tools[name] ELSE CHOOSE t \in values(_tools) : TRUE

\* ToolRegistry.get_tool
get_tool(name) == IF name \in DOMAIN _tools THEN _tools[name] ELSE None

Return(i, name, tool, result) ==
    task' = [task EXCEPT ![i] = [pc |-> "returned", name |-> name, tool |-> tool,
                                 result |-> result]]

(***************************************************************************)
(* ToolRegistry.execute_tool up to its first await: lookup, validation,    *)
(* and the head of Tool.safe_execute, which counts the use and enters      *)
(* execute under asyncio.wait_for.                                         *)
(***************************************************************************)
execute_tool(i, name, params) ==
    /\ task[i].pc \in {"idle", "returned"}
    /\ calls < MaxCalls
    /\ calls' = calls + 1
    /\ LET tool == get_tool(name) IN
       IF tool = None
       THEN /\ Return(i, name, tool,
                       ToolResult("error", None, <<"Tool '", name, "' ", "not found">>))
            /\ UNCHANGED <<stats, now, execute_entered>>
       ELSE LET validation_error == validate_params(NameOf(tool), params) IN
            IF validation_error # NoError
            THEN /\ Return(i, name, tool, ToolResult("error", None, validation_error))
                 /\ UNCHANGED <<stats, now, execute_entered>>
            ELSE /\ _usage_count' = [_usage_count EXCEPT ![tool] = @ + 1]
                 /\ _last_used' = [_last_used EXCEPT ![tool] = now]
                 /\ now' = now + 1
                 /\ execute_entered' = [execute_entered EXCEPT ![tool] = @ + 1]
                 /\ task' = [task EXCEPT ![i] = [pc |-> "executing", name |-> name,
                                                 tool |-> tool, result |-> NoResult]]
                 /\ UNCHANGED <<_success_count, _error_count>>
    /\ UNCHANGED <<catalog, resets>>

\* counters kept on the class, shared by all tools: a success is counted
\* for every tool
execute_returns_shared(i, result) ==
    /\ task[i].pc = "executing"
    /\ LET tool == task[i].tool IN
       /\ IF result.status = "success"
          THEN /\ _success_count' = [t \in DOMAIN _success_count |->
                                        _success_count[t] + 1]
               /\ UNCHANGED _error_count
          ELSE /\ _error_count' = [t \in DOMAIN _error_count |-> _error_count[t] + 1]
               /\ UNCHANGED _success_count
       /\ Return(i, task[i].name, tool, result)
    /\ UNCHANGED <<catalog, _usage_count, _last_used, now, execute_entered, calls, resets>>

(***************************************************************************)
(* Tool.safe_execute after the await: execute returned a result.           *)
(***************************************************************************)
execute_returns(i, result) ==
    /\ task[i].pc = "executing"
    /\ LET tool == task[i].tool IN
       /\ IF result.status = "success"
          THEN /\ _success_count' = [_success_count EXCEPT ![tool] = @ + 1]
               /\ UNCHANGED _error_count
          ELSE /\ _error_count' = [_error_count EXCEPT ![tool] = @ + 1]
               /\ UNCHANGED _success_count
       /\ Return(i, task[i].name, tool, result)
    /\ UNCHANGED <<catalog, _usage_count, _last_used, now, execute_entered, calls, resets>>

\* a handler that returns the Error result but forgets to count it
execute_raises_uncounted(i, e) ==
    /\ task[i].pc = "executing"
    /\ Return(i, task[i].name, task[i].tool, ToolResult("error", None, e.msg))
    /\ UNCHANGED <<catalog, stats, now, execute_entered, calls, resets>>

(***************************************************************************)
(* Tool.safe_execute after the await: execute raised.  The handlers are    *)
(* tried in order: asyncio.TimeoutError, then Exception.                   *)
(***************************************************************************)
execute_raises(i, e) ==
    /\ task[i].pc = "executing"
    /\ LET tool == task[i].tool IN
       /\ _error_count' = [_error_count EXCEPT ![tool] = @ + 1]
       /\ IF e.cls = "TimeoutError"
          THEN Return(i, task[i].name, tool, ToolResult("timeout", None,
                        <<"Tool execution timed out after ", timeout(tool), " seconds">>))
          ELSE Return(i, task[i].name, tool, ToolResult("error", None, e.msg))
    /\ UNCHANGED <<catalog, _usage_count, _success_count, _last_used, now,
                   execute_entered, calls, resets>>

(***************************************************************************)
(* asyncio.wait_for: the timeout elapses while execute is suspended; the   *)
(* execute task is cancelled and wait_for waits for it to unwind.          *)
(***************************************************************************)
wait_for_timeout(i) ==
    /\ task[i].pc = "executing"
    /\ task' = [task EXCEPT ![i].pc = "cancelling"]
    /\ UNCHANGED <<catalog, stats, now, execute_entered, calls, resets>>

\* a timeout handler that returns Timeout but counts the call as a success
wait_for_cancelled_success(i) ==
    /\ task[i].pc = "cancelling"
    /\ _success_count' = [_success_count EXCEPT ![task[i].tool] = @ + 1]
    /\ Return(i, task[i].name, task[i].tool, ToolResult("timeout", None,
                 <<"Tool execution timed out after ", timeout(task[i].tool), " seconds">>))
    /\ UNCHANGED <<catalog, _usage_count, _error_count, _last_used, now,
                   execute_entered, calls, resets>>

(***************************************************************************)
(* The cancelled execute has unwound: wait_for raises TimeoutError and     *)
(* safe_execute's handler counts an error and returns Timeout.             *)
(***************************************************************************)
wait_for_cancelled(i) ==
    /\ task[i].pc = "cancelling"
    /\ LET tool == task[i].tool IN
       /\ _error_count' = [_error_count EXCEPT ![tool] = @ + 1]
       /\ Return(i, task[i].name, tool, ToolResult("timeout", None,
                    <<"Tool execution timed out after ", timeout(tool), " seconds">>))
    /\ UNCHANGED <<catalog, _usage_count, _success_count, _last_used, now,
                   execute_entered, calls, resets>>

\* a reset that zeroes the three counters and keeps last_used
reset_stats_keeps_last_used ==
    /\ resets < MaxResets
    /\ resets' = resets + 1
    /\ _usage_count' = [t \in DOMAIN _usage_count |->
                          IF t \in values(_tools) THEN 0 ELSE _usage_count[t]]
    /\ _success_count' = [t \in DOMAIN _success_count |->
                          IF t \in values(_tools) THEN 0 ELSE _success_count[t]]
    /\ _error_count' = [t \in DOMAIN _error_count |->
                          IF t \in values(_tools) THEN 0 ELSE _error_count[t]]
    /\ UNCHANGED <<catalog, _last_used, now, task, execute_entered, calls>>

(***************************************************************************)
(* ToolRegistry.reset_stats                                                *)
(***************************************************************************)
reset_stats ==
    /\ resets < MaxResets
    /\ resets' = resets + 1
    /\ _usage_count' = [t \in DOMAIN _usage_count |->
                          IF t \in values(_tools) THEN 0 ELSE _usage_count[t]]
    /\ _success_count' = [t \in DOMAIN _success_count |->
                          IF t \in values(_tools) THEN 0 ELSE _success_count[t]]
    /\ _error_count' = [t \in DOMAIN _error_count |->
                          IF t \in values(_tools) THEN 0 ELSE _error_count[t]]
    /\ _last_used' = [t \in DOMAIN _last_used |->
                          IF t \in values(_tools) THEN 0 ELSE _last_used[t]]
    /\ UNCHANGED <<catalog, now, task, execute_entered, calls>>

\* x in list
InList(x, list) == \E k \in 1..Len(list) : list[k] = x

\* list.remove(x), for a list that holds x: the first occurrence is removed
remove(list, x) ==
    LET k == CHOOSE m \in 1..Len(list) :
                 list[m] = x /\ \A o \in 1..(m - 1) : list[o] # x
    IN  SubSeq(list, 1, k - 1) \o SubSeq(list, k + 1, Len(list))

\* a register that keeps the entry a name already has
register_keep_first(tool, category) ==
    /\ registers < MaxRegisters
    /\ registers' = registers + 1
    /\ LET name == NameOf(tool) IN
       /\ _tools' = [n \in DOMAIN _tools \cup {name} |->
                        IF n \in DOMAIN _tools THEN _tools[n] ELSE tool]
       /\ _categories' =
             [c \in DOMAIN _categories \cup {category} |->
                LET list == IF c \in DOMAIN _categories THEN _categories[c] ELSE << >>
                IN  IF c = category /\ ~InList(name, list)
                    THEN Append(list, name)
                    ELSE list]
       /\ last_call' = [op |-> "register", name |-> name, returned |-> FALSE]
    /\ UNCHANGED <<unregisters, stats, now, task, execute_entered, calls, resets>>

(***************************************************************************)
(* ToolRegistry.register: the tool object is stored under its name,        *)
(* replacing the object the name had, and the name is appended to the      *)
(* category's list unless the list holds it.  It returns nothing.          *)
(***************************************************************************)
register(tool, category) ==
    /\ registers < MaxRegisters
    /\ registers' = registers + 1
    /\ LET name == NameOf(tool) IN
       /\ _tools' = [n \in DOMAIN _tools \cup {name} |->
                        IF n = name THEN tool ELSE _tools[n]]
       /\ _categories' =
             [c \in DOMAIN _categories \cup {category} |->
                LET list == IF c \in DOMAIN _categories THEN _categories[c] ELSE << >>
                IN  IF c = category /\ ~InList(name, list)
                    THEN Append(list, name)
                    ELSE list]
       /\ last_call' = [op |-> "register", name |-> name, returned |-> FALSE]
    /\ UNCHANGED <<unregisters, stats, now, task, execute_entered, calls, resets>>

\* an unregister that forgets the category lists
unregister_catalog_only(name) ==
    /\ unregisters < MaxUnregisters
    /\ unregisters' = unregisters + 1
    /\ IF name \in DOMAIN _tools
       THEN /\ _tools' = [n \in DOMAIN _tools \ {name} |-> _tools[n]]
            /\ last_call' = [op |-> "unregister", name |-> name, returned |-> TRUE]
       ELSE /\ last_call' = [op |-> "unregister", name |-> name, returned |-> FALSE]
            /\ UNCHANGED _tools
    /\ UNCHANGED <<_categories, registers, stats, now, task, execute_entered, calls,
                   resets>>

(***************************************************************************)
(* ToolRegistry.unregister                                                 *)
(***************************************************************************)
unregister(name) ==
    /\ unregisters < MaxUnregisters
    /\ unregisters' = unregisters + 1
    /\ IF name \in DOMAIN _tools
       THEN /\ _tools' = [n \in DOMAIN _tools \ {name} |-> _tools[n]]
            /\ _categories' = [c \in DOMAIN _categories |->
                                  IF InList(name, _categories[c])
                                  THEN remove(_categories[c], name)
                                  ELSE _categories[c]]
            /\ last_call' = [op |-> "unregister", name |-> name, returned |-> TRUE]
       ELSE /\ last_call' = [op |-> "unregister", name |-> name, returned |-> FALSE]
            /\ UNCHANGED <<_tools, _categories>>
    /\ UNCHANGED <<registers, stats, now, task, execute_entered, calls, resets>>

\* ToolRegistry.list_tools() without a category: the registered names
list_tools == DOMAIN _tools

\* ToolRegistry.list_tools(category)
list_tools_in(category) ==
    IF category \in DOMAIN _categories THEN _categories[category] ELSE << >>

\* Tool.get_stats of the tool registered under a name; success_rate is the
\* quotient success_count / usage_count, kept as the pair of its terms
get_stats(name) ==
    LET tool == _tools[name] IN
    [name |-> NameOf(tool),
     usage_count |-> _usage_count[tool],
     success_count |-> _success_count[tool],
     error_count |-> _error_count[tool],
     last_used |-> _last_used[tool],
     success_rate |-> IF _usage_count[tool] > 0
                      THEN <<_success_count[tool], _usage_count[tool]>>
                      ELSE <<0, 1>>]

(***************************************************************************)
(* production_tool_proxy.ToolCallProxy: one chat-completion request        *)
(* processed by the prioritized strategy chain.  Every HTTP call to vLLM   *)
(* or to the tool backend is an await; its reply is an input.              *)
(***************************************************************************)

\* the tool names a request offers, in the order of request.tools
OfferedTools == { << >>, <<"calculator">>, <<"system_info", "calculator">> }

\* the content of the last (user) message: a text, or a list of content
\* parts, which is not a string.  Korean words are written romanized:
\* gobhagi is the three-syllable word for "times", memori the word for
\* "memory" of the system word list
Parts == "<parts>"
UserTexts == {"25 * 4", "25 gobhagi 4", "cpu memori", "hello"}
Messages ==
    { << >> } \cup { <<[role |-> "user", content |-> c]>> : c \in UserTexts \cup {Parts} }

\* any(word in text ...) for the calculator words of _detect_primary_tool,
\* which are also the operator tests of _fallback_pattern_detection
has_calc_word(text) == text \in {"25 * 4", "25 gobhagi 4"}

\* any(word in text ...) for the weather words
has_weather_word(text) == FALSE

\* any(word in text ...) for the system words
has_system_word(text) == text \in {"cpu memori"}

\* re.search over calc_patterns: the operands of the first pattern that
\* matches; the character class of the
\* first pattern matches one character only, not the word gobhagi
calc_match(text) == IF text = "25 * 4" THEN <<"25", "4">> ELSE << >>

names_of(tools) == {tools[k] : k \in 1..Len(tools)}

\* ToolCallProxy._detect_primary_tool, for a request whose messages are not
\* empty and whose user content is a string
_detect_primary_tool(messages, tools) ==
    LET user_message == messages[Len(messages)].content
        available_tools == names_of(tools)
    IN  IF has_calc_word(user_message) /\ "calculator" \in available_tools
        THEN "calculator"
        ELSE IF has_weather_word(user_message) /\ "get_weather" \in available_tools
        THEN "get_weather"
        ELSE IF has_system_word(user_message) /\ "system_info" \in available_tools
        THEN "system_info"
        ELSE IF tools # << >> THEN tools[1] ELSE None

\* ToolCallProxy._fallback_pattern_detection, for a string user_message
_fallback_pattern_detection(user_message, tools) ==
    LET available_tools == names_of(tools)
        match == calc_match(user_message)
    IN  IF "calculator" \in available_tools /\ match # << >>
        THEN <<TRUE, "calculator", <<"expression", match[1], "*", match[2]>> >>
        ELSE IF "system_info" \in available_tools /\ has_system_word(user_message)
        THEN <<TRUE, "system_info", <<"info_type", "all">> >>
        ELSE <<FALSE, "", << >> >>

\* replies of vLLM to a request that carries tools (priorities 1 and 2)
ToolCallReplies == {"tool_calls", "no_tool_calls", "http_error", "exception"}

\* replies of vLLM to the routing prompt: the call fails, or the content is
\* missing, is not JSON, or is a JSON decision
RoutingReplies ==
    { [kind |-> k, tool_name |-> "", parameters |-> << >>] :
        k \in {"exception", "http_error", "no_content", "not_json", "use_tool_false"} }
    \cup
    { [kind |-> "use_tool", tool_name |-> n, parameters |-> <<"llm", n>>] :
        n \in {"calculator", "system_info", "get_weather"} }

\* replies of vLLM to a plain completion request
NormalReplies == {"ok", "http_error", "exception"}

\* replies of the tool backend's /execute: a ToolResult dictionary, or the
\* connection fails
BackendReplies == {"success", "error", "partial", "timeout", "exception"}

\* ToolCallProxy._get_tool_routing_decision after its await
_get_tool_routing_decision(reply, request) ==
    LET user_message == request.messages[Len(request.messages)].content IN
    CASE reply.kind = "use_tool" -> <<TRUE, reply.tool_name, reply.parameters>>
      [] reply.kind = "not_json" ->
           IF user_message = Parts
           THEN <<FALSE, "", << >> >>
           ELSE _fallback_pattern_detection(user_message, request.tools)
      [] OTHER -> <<FALSE, "", << >> >>

\* the strategies list of process_request
strategies_reordered == <<2, 1, 3, 4>>

strategies == <<1, 2, 3, 4>>

VARIABLES
    \* the ChatCompletionRequest
    request,
    \* where process_request is: "idle", "try" (about to call strategy idx),
    \* the await it is suspended in, or "done"
    ppc, idx,
    \* locals of _try_priority_3 / _try_priority_4
    tool_name, parameters,
    \* what process_request returned
    response,
    \* ToolCallProxy.stats
    proxy_stats,
    \* instrumentation: the strategies called, the outcome of each, the
    \* number of _execute_backend_tool calls and the result dictionaries
    \* they returned
    tried, outcomes, backend_calls, backend_results

proxyVars == <<request, ppc, idx, tool_name, parameters, response, proxy_stats,
               tried, outcomes, backend_calls, backend_results>>

\* a response dictionary: what it is, the strategy that produced it, the
\* tool call it holds and the text under its "error" key
NoResponse == [kind |-> "none", by |-> 0, tool_name |-> "", parameters |-> << >>,
               error |-> NoError]

Response(kind, by) ==
    [kind |-> kind, by |-> by, tool_name |-> "", parameters |-> << >>,
     error |-> IF kind = "error"
               THEN <<"All tool calling strategies failed">>
               ELSE NoError]

\* the (False, {"error": ...}) result of a strategy whose tool failed
ToolExecutionFailed(tool_result) ==
    [Response("failed", 0) EXCEPT
        !.error = <<"Tool execution failed: ">> \o tool_result.error]

\* the dictionary _execute_backend_tool returns: the ToolResult the backend's
\* /execute serialized, or the connection error
backend_result(reply) ==
    CASE reply = "success" -> [status |-> "success", error |-> NoError]
      [] reply = "error" -> [status |-> "error", error |-> <<"tool error">>]
      [] reply = "partial" ->
           [status |-> "partial", error |-> <<"Missing required field: ", "f">>]
      [] reply = "timeout" ->
           [status |-> "timeout",
            error |-> <<"Tool execution timed out after ", "5.0", " seconds">>]
      [] reply = "exception" ->
           [status |-> "error", error |-> <<"Backend connection failed: ", "boom">>]

IdleProxy ==
    /\ ppc = "idle"
    /\ idx = 1
    /\ tool_name = ""
    /\ parameters = << >>
    /\ response = NoResponse
    /\ proxy_stats = [total_requests |-> 0, success |-> [k \in 1..4 |-> 0]]
    /\ tried = << >>
    /\ outcomes = << >>
    /\ backend_calls = 0
    /\ backend_results = << >>

InitProxy ==
    /\ request \in [tools : OfferedTools, messages : Messages]
    /\ IdleProxy

\* ToolCallProxy._update_stats
_update_stats(k) ==
    [proxy_stats EXCEPT !.success[k] = @ + 1]

(***************************************************************************)
(* The loop of process_request around one strategy call: a strategy that   *)
(* returned (True, result) ends the request with result; one that          *)
(* returned (False, _) or raised is followed by the next strategy; after   *)
(* the last one the error dictionary is returned.                          *)
(***************************************************************************)
strategy_returns(success, result) ==
    /\ outcomes' = Append(outcomes, IF success THEN "success" ELSE "failed")
    /\ IF success
       THEN /\ response' = result
            /\ proxy_stats' = _update_stats(strategies[idx])
            /\ ppc' = "done"
            /\ UNCHANGED idx
       ELSE IF idx < Len(strategies)
       THEN /\ idx' = idx + 1
            /\ ppc' = "try"
            /\ UNCHANGED <<response, proxy_stats>>
       ELSE /\ response' = Response("error", 0)
            /\ ppc' = "done"
            /\ UNCHANGED <<idx, proxy_stats>>

strategy_raises ==
    /\ outcomes' = Append(outcomes, "raised")
    /\ IF idx < Len(strategies)
       THEN /\ idx' = idx + 1
            /\ ppc' = "try"
            /\ UNCHANGED <<response, proxy_stats>>
       ELSE /\ response' = Response("error", 0)
            /\ ppc' = "done"
            /\ UNCHANGED <<idx, proxy_stats>>

\* process_request up to the first strategy call, or to the pass-through
process_request ==
    /\ ppc = "idle"
    /\ proxy_stats' = [proxy_stats EXCEPT !.total_requests = @ + 1]
    /\ ppc' = IF request.tools = << >> THEN "passthrough" ELSE "try"
    /\ UNCHANGED <<request, idx, tool_name, parameters, response, tried, outcomes,
                   backend_calls, backend_results>>

\* ToolCallProxy._passthrough_to_vllm after its await
_passthrough_to_vllm(reply) ==
    /\ ppc = "passthrough"
    /\ response' = IF reply = "exception"
                   THEN [Response("error", 0) EXCEPT
                            !.error = <<"Passthrough failed: ", "boom">>]
                   ELSE Response("passthrough", 0)
    /\ ppc' = "done"
    /\ UNCHANGED <<request, idx, tool_name, parameters, proxy_stats, tried, outcomes,
                   backend_calls, backend_results>>

\* ToolCallProxy._try_priority_1 up to its await
_try_priority_1 ==
    /\ ppc = "try"
    /\ strategies[idx] = 1
    /\ tried' = Append(tried, 1)
    /\ IF request.messages = << >>
       THEN strategy_returns(FALSE, NoResponse)
       ELSE IF request.messages[Len(request.messages)].content = Parts
       THEN strategy_raises
       ELSE /\ ppc' = "post_1"
            /\ UNCHANGED <<idx, response, proxy_stats, outcomes>>
    /\ UNCHANGED <<request, tool_name, parameters, backend_calls, backend_results>>

\* ToolCallProxy._try_priority_2 up to its await
_try_priority_2 ==
    /\ ppc = "try"
    /\ strategies[idx] = 2
    /\ tried' = Append(tried, 2)
    /\ ppc' = "post_2"
    /\ UNCHANGED <<request, idx, tool_name, parameters, response, proxy_stats,
                   outcomes, backend_calls, backend_results>>

\* _try_priority_1 and _try_priority_2 after the await: _has_tool_calls
native_response(reply) ==
    /\ ppc \in {"post_1", "post_2"}
    /\ IF reply = "tool_calls"
       THEN strategy_returns(TRUE, Response("vllm_tool_calls", strategies[idx]))
       ELSE strategy_returns(FALSE, NoResponse)
    /\ UNCHANGED <<request, tool_name, parameters, tried, backend_calls, backend_results>>

\* _try_priority_3 and _try_priority_4 up to the await of the routing query
try_routing(k) ==
    /\ ppc = "try"
    /\ strategies[idx] = k
    /\ tried' = Append(tried, k)
    /\ IF request.messages = << >>
       THEN strategy_raises
       ELSE /\ ppc' = "route"
            /\ UNCHANGED <<idx, response, proxy_stats, outcomes>>
    /\ UNCHANGED <<request, tool_name, parameters, backend_calls, backend_results>>

_try_priority_3 == try_routing(3)

_try_priority_4 == try_routing(4)

\* _try_priority_3 after the routing query
priority_3_decision(reply) ==
    /\ ppc = "route"
    /\ strategies[idx] = 3
    /\ LET decision == _get_tool_routing_decision(reply, request) IN
       IF ~decision[1]
       THEN /\ ppc' = "normal"
            /\ UNCHANGED <<tool_name, parameters, backend_calls>>
       ELSE /\ tool_name' = decision[2]
            /\ parameters' = decision[3]
            /\ backend_calls' = backend_calls + 1
            /\ ppc' = "execute"
    /\ UNCHANGED <<request, idx, response, proxy_stats, tried, outcomes,
                   backend_results>>

\* _try_priority_4 after the routing query of _pass_1_tool_decision;
\* _pass_2_extract_parameters takes the parameters of the pattern detection
priority_4_decision(reply) ==
    /\ ppc = "route"
    /\ strategies[idx] = 4
    /\ LET use_tool_decision == _get_tool_routing_decision(reply, request)
           content == request.messages[Len(request.messages)].content
       IN
       IF ~use_tool_decision[1]
       THEN /\ ppc' = "normal"
            /\ UNCHANGED <<idx, tool_name, parameters, backend_calls, response,
                           proxy_stats, outcomes>>
       ELSE IF content = Parts
       THEN /\ strategy_raises
            /\ UNCHANGED <<tool_name, parameters, backend_calls>>
       ELSE /\ tool_name' = use_tool_decision[2]
            /\ parameters' = _fallback_pattern_detection(content, request.tools)[3]
            /\ backend_calls' = backend_calls + 1
            /\ ppc' = "execute"
            /\ UNCHANGED <<idx, response, proxy_stats, outcomes>>
    /\ UNCHANGED <<request, tried, backend_results>>

\* ToolCallProxy._get_normal_response after its await
_get_normal_response(reply) ==
    /\ ppc = "normal"
    /\ IF reply = "ok"
       THEN strategy_returns(TRUE, Response("normal", strategies[idx]))
       ELSE strategy_returns(FALSE, NoResponse)
    /\ UNCHANGED <<request, tool_name, parameters, tried, backend_calls, backend_results>>

\* str(parameters): the text of a dictionary as Python writes it
python_str(obj) ==
    IF obj = << >>
    THEN <<"{", "}">>
    ELSE <<"{", "'", obj[1], "'", ":", "'">> \o Tail(obj) \o <<"'", "}">>

\* json.dumps(parameters, ensure_ascii=False) of a parameters dictionary,
\* which is empty or holds one key with a string made of the parts that
\* follow the key: the JSON text, token by token
json_dumps(obj) ==
    IF obj = << >>
    THEN <<"{", "}">>
    ELSE <<"{", "\"", obj[1], "\"", ":", "\"">> \o Tail(obj) \o <<"\"", "}">>

\* ToolCallProxy._create_openai_tool_response: body is the dictionary it
\* returns; uuids are the two uuid4 values and the clock reading it draws
_create_openai_tool_response(name, params, by, uuids) ==
    [kind |-> "tool_calls", by |-> by, tool_name |-> name, parameters |-> params,
     error |-> NoError,
     body |->
       [id |-> <<"chatcmpl-", uuids[2]>>,
        object |-> "chat.completion",
        created |-> uuids[3],
        model |-> "openai/gpt-oss-20b",
        choices |->
          << [index |-> 0,
              message |->
                [role |-> "assistant",
                 content |-> None,
                 tool_calls |->
                   << [id |-> <<"call_", uuids[1]>>,
                       type |-> "function",
                       function |-> [name |-> name,
                                     arguments |-> json_dumps(params)]] >>],
              finish_reason |-> "tool_calls"] >>,
        usage |-> [prompt_tokens |-> 100, total_tokens |-> 120,
                   completion_tokens |-> 20]]]

\* ToolCallProxy._execute_backend_tool after its await, and the rest of
\* the strategy that called it
_execute_backend_tool(reply) ==
    /\ ppc = "execute"
    /\ LET tool_result == backend_result(reply) IN
       /\ backend_results' = Append(backend_results, tool_result)
       /\ IF tool_result.status # "success"
          THEN strategy_returns(FALSE, ToolExecutionFailed(tool_result))
          ELSE \E uuids \in {"a1b2c3d4", "e5f6a7b8"} \X {"a1b2c3d4", "e5f6a7b8"} \X {1, 2} :
                   strategy_returns(TRUE,
                       _create_openai_tool_response(tool_name, parameters,
                                                    strategies[idx], uuids))
    /\ UNCHANGED <<request, tool_name, parameters, tried, backend_calls>>

\* chat_completions: the HTTP status the caller of the endpoint sees
chat_completions == IF response.kind = "error" THEN 500 ELSE 200

(***************************************************************************)
(* agent_backend.process_llm_response: the native tool_calls of the model  *)
(* reply are executed first; the text patterns are the fallback.           *)
(***************************************************************************)
\* function.arguments of a tool call: a JSON object that gives expression
\* a string, a JSON object that gives expression a number, a JSON value
\* that is not an object, the empty string, text that is not JSON, or a
\* value that is not a string
ArgumentKinds == {"object", "object_mistyped", "array", "empty", "malformed", "not_str"}
WellFormedArguments == {"object", "object_mistyped", "array"}

\* json.loads(arguments_str) if arguments_str else {}, for the arguments
\* that parse to a mapping
json_loads(arguments) ==
    CASE arguments = "object" -> <<<<"expression", "str">>>>
      [] arguments = "object_mistyped" -> <<<<"expression", "int">>>>
      [] OTHER -> << >>

\* the params dictionary the fallback builds from params_str: every value
\* is a string
parse_params(name, params_str) ==
    CASE name = "calculator" -> <<<<"expression", "str">>>>
      [] name = "time_now" -> <<<<"timezone", "str">>>>
      [] OTHER -> << >>

ToolCalls == [name : {"calculator", "get_weather"}, arguments : ArgumentKinds]

\* the (tool_name, params_str) pairs the two patterns find in the text
Matches == [tool_name : {"calculator", "print"}, params_str : {"1+1"}]

SeqsUpTo(S, n) == UNION {[1..m -> S] : m \in 0..n}

\* the available_tools list of the fallback
available_tools ==
    {"calculator", "time_now", "system_info", "file_read", "file_write", "file_list"}

VARIABLES
    \* the arguments of process_llm_response: the tool_calls of
    \* llm_result["choices"][0]["message"] and the matches in llm_response
    llm_result, llm_response,
    \* where process_llm_response is, and its loop index
    apc, pos,
    \* the tools_used list
    tools_used,
    \* instrumentation: evaluations of the fallback patterns, and the tools
    \* whose execute was called, with the path that called it and the
    \* parameters it passed
    pattern_evaluated, agent_executed,
    \* the messages list of app_v2.chat
    messages

agentVars == <<llm_result, llm_response, apc, pos, tools_used, pattern_evaluated,
               agent_executed, messages>>

IdleAgent ==
    /\ apc = "idle"
    /\ pos = 1
    /\ tools_used = << >>
    /\ pattern_evaluated = 0
    /\ agent_executed = << >>
    /\ messages = << >>

InitAgent ==
    /\ llm_result \in [has_choices : BOOLEAN, tool_calls : SeqsUpTo(ToolCalls, MaxToolCalls)]
    /\ llm_response \in SeqsUpTo(Matches, MaxMatches)
    /\ IdleAgent

\* a list that keeps only the results of tools that ran without error
append_if_ok(list, tool_result) ==
    IF tool_result.status = "error" THEN list ELSE Append(list, tool_result)

\* tools_used.append(tool_result)
append(list, tool_result) == Append(list, tool_result)

\* the dictionary agent_backend.execute_tool returns
ToolDict(tool, status) == [tool |-> tool, status |-> status]

\* json.loads(arguments_str) if arguments_str else {} raises for text that
\* is not JSON and for a value that is not a string
parse_raises(arguments) == arguments \in {"malformed", "not_str"}

\* agent_backend.execute_tool returns at once, without calling execute:
\* the tool is not registered, or the parameters are not a mapping
execute_fails_at_call(name, arguments) ==
    \/ get_tool(name) = None
    \/ arguments = "array"

\* process_llm_response up to its first await: the head of the loop over
\* tool_calls
process_llm_response ==
    /\ apc = "idle"
    /\ apc' = IF llm_result.has_choices /\ llm_result.tool_calls # << >>
              THEN "native" ELSE "fallback_check"
    /\ UNCHANGED <<messages, llm_result, llm_response, pos, tools_used, pattern_evaluated,
                   agent_executed>>

\* one iteration of the loop over tool_calls, up to the await of execute
native_tool_call ==
    /\ apc = "native"
    /\ pos <= Len(llm_result.tool_calls)
    /\ LET tool_call == llm_result.tool_calls[pos] IN
       IF parse_raises(tool_call.arguments)
       THEN /\ pos' = pos + 1
            /\ UNCHANGED <<apc, tools_used, agent_executed>>
       ELSE IF execute_fails_at_call(tool_call.name, tool_call.arguments)
       THEN /\ tools_used' = append(tools_used, ToolDict(tool_call.name, "error"))
            /\ pos' = pos + 1
            /\ UNCHANGED <<apc, agent_executed>>
       ELSE /\ apc' = "native_execute"
            /\ agent_executed' = Append(agent_executed,
                    <<"native", tool_call.name, json_loads(tool_call.arguments)>>)
            /\ UNCHANGED <<pos, tools_used>>
    /\ UNCHANGED <<messages, llm_result, llm_response, pattern_evaluated>>

\* the tool's execute returned a result or raised: execute_tool returns a
\* dictionary in both cases
native_tool_done(status) ==
    /\ apc = "native_execute"
    /\ tools_used' = append(tools_used, ToolDict(llm_result.tool_calls[pos].name, status))
    /\ pos' = pos + 1
    /\ apc' = "native"
    /\ UNCHANGED <<messages, llm_result, llm_response, pattern_evaluated, agent_executed>>

\* the loop over tool_calls is over
native_loop_ends ==
    /\ apc = "native"
    /\ pos > Len(llm_result.tool_calls)
    /\ apc' = "fallback_check"
    /\ pos' = 1
    /\ UNCHANGED <<messages, llm_result, llm_response, tools_used, pattern_evaluated,
                   agent_executed>>

\* if not tools_used: the two patterns are searched in the text
fallback_check ==
    /\ apc = "fallback_check"
    /\ IF tools_used = << >>
       THEN /\ pattern_evaluated' = pattern_evaluated + 1
            /\ apc' = "fallback"
       ELSE /\ apc' = "returned"
            /\ UNCHANGED pattern_evaluated
    /\ UNCHANGED <<messages, llm_result, llm_response, pos, tools_used, agent_executed>>

\* one iteration of the loop over all_matches, up to the await of execute
fallback_tool_call ==
    /\ apc = "fallback"
    /\ pos <= Len(llm_response)
    /\ LET match == llm_response[pos] IN
       IF match.tool_name \notin available_tools
       THEN /\ pos' = pos + 1
            /\ UNCHANGED <<apc, tools_used, agent_executed>>
       ELSE IF execute_fails_at_call(match.tool_name, "object")
       THEN /\ tools_used' = append(tools_used, ToolDict(match.tool_name, "error"))
            /\ pos' = pos + 1
            /\ UNCHANGED <<apc, agent_executed>>
       ELSE /\ apc' = "fallback_execute"
            /\ agent_executed' = Append(agent_executed,
                    <<"fallback", match.tool_name,
                      parse_params(match.tool_name, match.params_str)>>)
            /\ UNCHANGED <<pos, tools_used>>
    /\ UNCHANGED <<messages, llm_result, llm_response, pattern_evaluated>>

fallback_tool_done(status) ==
    /\ apc = "fallback_execute"
    /\ tools_used' = append(tools_used, ToolDict(llm_response[pos].tool_name, status))
    /\ pos' = pos + 1
    /\ apc' = "fallback"
    /\ UNCHANGED <<messages, llm_result, llm_response, pattern_evaluated, agent_executed>>

\* the loop over all_matches is over: return
fallback_loop_ends ==
    /\ apc = "fallback"
    /\ pos > Len(llm_response)
    /\ apc' = "returned"
    /\ UNCHANGED <<messages, llm_result, llm_response, pos, tools_used, pattern_evaluated,
                   agent_executed>>

(***************************************************************************)
(* app_v2.chat: the model is asked once; each tool call of its reply is    *)
(* answered by one message of role tool, and the follow-up asks the model  *)
(* again with those messages.  llm_result holds the first reply's message, *)
(* pos the index of the loop over its tool_calls.                          *)
(***************************************************************************)
\* a message of the conversation
Message(role, tool_call_id, name, content) ==
    [role |-> role, tool_call_id |-> tool_call_id, name |-> name, content |-> content]

\* chat up to the await of the first model call
chat ==
    /\ apc = "idle"
    /\ messages' = << Message("system", None, None, "SYSTEM_PROMPT"),
                      Message("user", None, None, "request.message") >>
    /\ apc' = "model"
    /\ UNCHANGED <<llm_result, llm_response, pos, tools_used, pattern_evaluated,
                   agent_executed>>

\* messages.append of the message that answers the call at pos, and the
\* head of the loop: after the last call the follow-up model call is made
answer_without_message(message) ==
    /\ pos' = pos + 1
    /\ apc' = IF pos = Len(llm_result.tool_calls) THEN "followup" ELSE "calls"
    /\ UNCHANGED messages

answer(message) ==
    /\ messages' = Append(messages, message)
    /\ pos' = pos + 1
    /\ apc' = IF pos = Len(llm_result.tool_calls) THEN "followup" ELSE "calls"

\* one iteration of the loop over msg["tool_calls"], up to the await of
\* the registry's execute_tool
chat_tool_call ==
    /\ apc = "calls"
    /\ LET call == llm_result.tool_calls[pos]
           args == IF call.arguments = "empty" THEN "object" ELSE call.arguments
       IN  IF args = "malformed"
           THEN /\ answer(Message("tool", call.id, None, "Invalid JSON arguments"))
                /\ UNCHANGED <<tools_used, agent_executed>>
           ELSE IF args = "not_str"
           THEN /\ answer(Message("tool", call.id, call.name,
                                  "Tool call processing failed"))
                /\ UNCHANGED <<tools_used, agent_executed>>
           ELSE IF get_tool(call.name) = None
           THEN /\ answer(Message("tool", call.id, call.name, "Unknown tool"))
                /\ UNCHANGED <<tools_used, agent_executed>>
           ELSE IF args = "array"
           THEN /\ answer(Message("tool", call.id, call.name,
                                  "Tool call processing failed"))
                /\ UNCHANGED <<tools_used, agent_executed>>
           ELSE /\ apc' = "execute"
                /\ agent_executed' = Append(agent_executed,
                                            <<"chat", call.name, json_loads(args)>>)
                /\ UNCHANGED <<messages, pos, tools_used>>
    /\ UNCHANGED <<llm_result, llm_response, pattern_evaluated>>

\* the first model call returned or raised
chat_model_reply(reply) ==
    /\ apc = "model"
    /\ IF reply # "ok"
       THEN apc' = "http_500" /\ UNCHANGED messages
       ELSE IF llm_result.tool_calls = << >>
       THEN apc' = "returned" /\ UNCHANGED messages
       ELSE /\ messages' = Append(messages, Message("assistant", None, None, "msg"))
            /\ apc' = "calls"
    /\ UNCHANGED <<llm_result, llm_response, pos, tools_used, pattern_evaluated,
                   agent_executed>>

\* the registry's execute_tool returned a ToolResult, or raised
chat_tool_done(status) ==
    /\ apc = "execute"
    /\ LET call == llm_result.tool_calls[pos] IN
       IF status = "raises"
       THEN /\ answer(Message("tool", call.id, call.name, "Tool call processing failed"))
            /\ UNCHANGED tools_used
       ELSE /\ answer(Message("tool", call.id, call.name, status))
            /\ tools_used' = Append(tools_used, call.name)
    /\ UNCHANGED <<llm_result, llm_response, pattern_evaluated, agent_executed>>

\* the follow-up model call returned or raised
chat_followup_reply(reply) ==
    /\ apc = "followup"
    /\ apc' = IF reply = "ok" THEN "returned" ELSE "http_500"
    /\ UNCHANGED <<messages, llm_result, llm_response, pos, tools_used,
                   pattern_evaluated, agent_executed>>

(***************************************************************************)
(* proxy_with_tools.ToolCallProxy, the structured bridge: one routing      *)
(* query decides on a tool, the tool is executed in the local registry and *)
(* vLLM writes the final response from the tool's result.  A user text is  *)
(* a sequence of words here; a phrase of a keyword list counts as one      *)
(* word, and Korean words are written romanized.                           *)
(***************************************************************************)
\* the requests the bridge is given: the offered tools (none: every
\* registered tool is offered) and the last user message
BridgeRequests ==
    [tools : { << >>, <<"calculator">>, <<"time_now", "calculator">>,
               <<"calculator", "system_info", "file_list">>,
               <<"system_info", "file_list">>, <<"file_list">> },
     messages : { << >> } \cup
                { <<[role |-> "user", content |-> c]>> :
                    c \in { <<"current time">>,
                            <<"current time", "25", "*", "4">>,
                            <<"flight", "25", "*", "4">>,
                            <<"25", "*", "4">>,
                            <<"25", "gobhagi", "4">>,
                            <<"3", "deohagi", "4">>,
                            <<"25", "*", "4", "cpu">>,
                            <<"cpu", "file">>,
                            <<"file">>,
                            <<"hello">> } }]

\* the condition under which the matcher of a tool fires on the text: a
\* keyword of its list is in the text or, for calculator, one of
\* calc_patterns is found (number, operator, number; the character class
\* of the first pattern holds the multiplication sign, written x, the
\* asterisk and the syllables gob, ha, gi one by one)
fires(name, text) ==
    LET any_in(words) == \E k \in 1..Len(text) : text[k] \in words
        numbers == {"25", "4", "3"}
        operators == {"x", "*", "gob", "ha", "gi", "+", "-", "/",
                      "deohagi", "ppaegi", "nanugi"}
    IN  CASE name = "time_now" ->
               any_in({"jigeum sigan", "hyeonjae sigan", "jigeum myeochsi",
                       "hyeonjae sigag", "what time is it now", "current time"})
          [] name = "calculator" ->
               \E k \in 1..(Len(text) - 2) :
                   /\ text[k] \in numbers
                   /\ text[k + 1] \in operators
                   /\ text[k + 2] \in numbers
          [] name = "system_info" ->
               any_in({"siseutem", "system", "cpu", "memori", "memory", "ram",
                       "diseukeu", "disk", "sangtae", "status"})
          [] name = "file_list" ->
               any_in({"pail", "file", "moglog", "list", "diregtori",
                       "directory", "folder", "ls"})
          [] OTHER -> FALSE

\* ToolCallProxy._fallback_pattern_detection of proxy_with_tools
\* in which calc_expr is the expression of the first of calc_patterns that
\* re.search finds in the text, at its leftmost match
_fallback_pattern_detection_bridge(user_message, tools) ==
    LET text == user_message
        available == names_of(tools)
        numbers == {"25", "4", "3"}
        calc_patterns == << <<{"x", "*", "gob", "ha", "gi"}, "*">>,
                            <<{"+"}, "+">>, <<{"-"}, "-">>, <<{"/"}, "/">>,
                            <<{"deohagi"}, "+">>, <<{"ppaegi"}, "-">>,
                            <<{"nanugi"}, "/">> >>
        search(p) == {k \in 1..(Len(text) - 2) :
                         /\ text[k] \in numbers
                         /\ text[k + 1] \in calc_patterns[p][1]
                         /\ text[k + 2] \in numbers}
        found == {p \in 1..Len(calc_patterns) : search(p) # {}}
        first == CHOOSE p \in found : \A q \in found : p <= q
        at == CHOOSE k \in search(first) : \A j \in search(first) : k <= j
        calc_expr == <<"expression", text[at], calc_patterns[first][2], text[at + 2]>>
        complex_indicators == {"chulbal", "dochag", "bihaeng", "sicha", "flight",
                               "arrival", "departure", "byeonhwan", "convert"}
    IN  IF "time_now" \in available /\ fires("time_now", text)
        THEN <<TRUE, "time_now", <<"timezone", "Asia/Seoul", "format", "standard">> >>
        ELSE IF /\ "time_now" \in available
                /\ \E k \in 1..Len(text) : text[k] \in complex_indicators
        THEN <<FALSE, "", << >> >>
        ELSE IF "calculator" \in available /\ fires("calculator", text)
        THEN <<TRUE, "calculator", calc_expr>>
        ELSE IF "system_info" \in available /\ fires("system_info", text)
        THEN <<TRUE, "system_info", <<"info_type", "all">> >>
        ELSE IF "file_list" \in available /\ fires("file_list", text)
        THEN <<TRUE, "file_list", <<"directory", ".", "recursive", "False">> >>
        ELSE <<FALSE, "", << >> >>

\* process_request of the bridge up to the await of the routing query in
\* _get_tool_routing_decision: a request without tools is given the
\* schemas of all registered tools; request.messages[-1] raises for a
\* request without messages
process_request_bridge ==
    /\ ppc = "idle"
    /\ proxy_stats' = [proxy_stats EXCEPT !.total_requests = @ + 1]
    /\ request' = IF request.tools = << >>
                  THEN [request EXCEPT !.tools =
                           <<"file_list", "system_info", "calculator", "time_now">>]
                  ELSE request
    /\ IF request.messages = << >>
       THEN ppc' = "raised" /\ UNCHANGED tried
       ELSE ppc' = "route" /\ tried' = Append(tried, "routing")
    /\ UNCHANGED <<idx, tool_name, parameters, response, outcomes, backend_calls,
                   backend_results>>

\* _try_structured_bridge after the routing query: the decision of
\* _get_tool_routing_decision, which is the pattern detection whenever the
\* reply is not a JSON decision, and the call of _execute_local_tool or of
\* _get_normal_response up to its await
_try_structured_bridge(reply) ==
    /\ ppc = "route"
    /\ LET user_message == request.messages[Len(request.messages)].content
           decision ==
               CASE reply.kind = "use_tool" ->
                      <<TRUE, reply.tool_name, reply.parameters>>
                 [] reply.kind = "use_tool_false" -> <<FALSE, "", << >> >>
                 [] OTHER ->
                      _fallback_pattern_detection_bridge(user_message, request.tools)
       IN  IF ~decision[1]
           THEN /\ ppc' = "normal"
                /\ UNCHANGED <<tool_name, parameters, backend_calls, tried>>
           ELSE /\ tool_name' = decision[2]
                /\ parameters' = decision[3]
                /\ backend_calls' = backend_calls + 1
                /\ tried' = Append(tried, "dispatch")
                /\ ppc' = "execute"
    /\ UNCHANGED <<request, idx, response, proxy_stats, outcomes, backend_results>>

\* _execute_local_tool after the await of the registry's execute_tool, and
\* _try_structured_bridge up to the await of the final response: a result
\* that is not a success makes the bridge fail, and process_request passes
\* the request through
_execute_local_tool(reply) ==
    /\ ppc = "execute"
    /\ LET tool_result == IF reply = "exception"
                          THEN [status |-> "error", error |-> <<"boom">>]
                          ELSE backend_result(reply)
       IN  /\ backend_results' = Append(backend_results, tool_result)
           /\ IF tool_result.status # "success"
              THEN /\ proxy_stats' =
                        [proxy_stats EXCEPT
                            !.tool_execution_success =
                                IF reply = "exception" THEN @ ELSE @ + 1,
                            !.direct_responses = @ + 1]
                   /\ tried' = Append(tried, "dispatched")
                   /\ ppc' = "passthrough"
              ELSE /\ proxy_stats' =
                        [proxy_stats EXCEPT !.tool_execution_success = @ + 1]
                   /\ tried' = tried \o <<"dispatched", "synthesis">>
                   /\ ppc' = "final"
    /\ UNCHANGED <<request, idx, tool_name, parameters, response, outcomes,
                   backend_calls>>

\* _try_structured_bridge after the await of the final response: the reply
\* of vLLM or, when that fails, the formatted tool result
final_response(reply) ==
    /\ ppc = "final"
    /\ response' = IF reply = "ok" THEN Response("final", 0) ELSE Response("formatted", 0)
    /\ proxy_stats' = [proxy_stats EXCEPT !.tool_calls_success = @ + 1]
    /\ ppc' = "done"
    /\ UNCHANGED <<request, idx, tool_name, parameters, tried, outcomes,
                   backend_calls, backend_results>>

\* _get_normal_response of the bridge after its await
_get_normal_response_bridge(reply) ==
    /\ ppc = "normal"
    /\ IF reply = "ok"
       THEN /\ response' = Response("normal", 0)
            /\ proxy_stats' = [proxy_stats EXCEPT !.tool_calls_success = @ + 1]
            /\ ppc' = "done"
       ELSE /\ proxy_stats' = [proxy_stats EXCEPT !.direct_responses = @ + 1]
            /\ ppc' = "passthrough"
            /\ UNCHANGED response
    /\ UNCHANGED <<request, idx, tool_name, parameters, tried, outcomes,
                   backend_calls, backend_results>>

(***************************************************************************)
(* tools/registry.py ToolRegistry, the registry of the category tools:     *)
(* register_tool adds a tool under its name, get_openai_schemas exports    *)
(* the schemas of the tools its filters let through.                       *)
(***************************************************************************)
\* the tools that are registered: three of the built-in category tools of
\* MCPTools and a tool that declares the highest safety level
SafetyTools ==
    { [name |-> "mathematical", category |-> "computation", safety_level |-> "safe"],
      [name |-> "system_info", category |-> "system", safety_level |-> "safe"],
      [name |-> "file_operations", category |-> "file_system",
       safety_level |-> "restricted"],
      [name |-> "shell", category |-> "system", safety_level |-> "dangerous"] }

VARIABLES
    \* ToolRegistry._tools.values(), in the order of registration
    registry_tools,
    \* the last call of get_openai_schemas: its arguments and the names of
    \* the tools whose schemas it returned
    exported

schemaVars == <<registry_tools, exported>>

\* ToolRegistry.__init__, and no export made yet
IdleSchemas ==
    /\ registry_tools = << >>
    /\ exported = [category |-> None, safety_level |-> None,
                   max_safety_level |-> None, schemas |-> << >>]

\* ToolRegistry.register_tool: a name that is registered raises ValueError
register_tool(tool) ==
    /\ \A k \in 1..Len(registry_tools) : registry_tools[k].name # tool.name
    /\ registry_tools' = Append(registry_tools, tool)
    /\ UNCHANGED exported

\* ToolRegistry.get_openai_schemas; None stands for an argument left out
get_openai_schemas(category, safety_level, max_safety_level) ==
    LET safety_hierarchy == <<"safe", "restricted", "dangerous">>
        max_level_index == CHOOSE k \in 1..3 : safety_hierarchy[k] = max_safety_level
        allowed_levels == {safety_hierarchy[k] : k \in 1..max_level_index}
        passes(t) ==
            /\ category # None => t.category = category
            /\ IF safety_level # None
               THEN t.safety_level = safety_level
               ELSE t.safety_level \in allowed_levels
        RECURSIVE filter(_)
        filter(tools) ==
            IF tools = << >> THEN << >>
            ELSE IF passes(Head(tools))
            THEN <<Head(tools).name>> \o filter(Tail(tools))
            ELSE filter(Tail(tools))
    IN  /\ exported' = [category |-> category, safety_level |-> safety_level,
                        max_safety_level |-> max_safety_level,
                        schemas |-> filter(registry_tools)]
        /\ UNCHANGED registry_tools

(***************************************************************************)
(* Specifications.                                                         *)
(***************************************************************************)
VARIABLE
    \* history: per tool, the number of safe_execute calls that ended in
    \* Success and the number that ended in Error or Timeout; it is kept by
    \* the specification of the statistics only
    ended

vars == <<registryVars, proxyVars, agentVars, ended, schemaVars>>

NoneEnded == ended = [t \in ToolObjects |-> <<0, 0>>]

\* safe_execute of a tool ends with a result of the status
Ended(tool, status) ==
    ended' = [ended EXCEPT ![tool] =
                 IF status = "success" THEN <<@[1] + 1, @[2]>>
                 ELSE IF status \in {"error", "timeout"} THEN <<@[1], @[2] + 1>>
                 ELSE @]

\* the requests of the idle components are fixed
IdleRequest == request = [tools |-> << >>, messages |-> << >>]
IdleReply == llm_result = [has_choices |-> FALSE, tool_calls |-> << >>] /\ llm_response = << >>

(***************************************************************************)
(* The calls the concurrent tasks make: a few concrete requests, one       *)
(* that validates for each of two tools, one that misses a required        *)
(* parameter, and one for a name that is not registered.                   *)
(***************************************************************************)
Requests ==
    { <<"calculator", <<<<"expression", "str">>>> >>,
      <<"json_parse", <<<<"json_string", "str">>>> >>,
      <<"json_parse", << >> >>,
      <<"unknown_tool", << >> >> }

Dispatch ==
    /\ \E i \in Tasks, r \in Requests : execute_tool(i, r[1], r[2])
    /\ UNCHANGED <<proxyVars, agentVars, ended, schemaVars>>

(***************************************************************************)
(* One caller trying every tool with every keyword-argument map of at      *)
(* most MaxParams declared parameters.                                     *)
(***************************************************************************)
DispatchAny ==
    /\ calls < MaxValidationCalls
    /\ \E name \in ToolNames : \E params \in Kwargs(Keys(name)) :
           execute_tool(1, name, params)
    /\ UNCHANGED <<proxyVars, agentVars, ended, schemaVars>>

Returns ==
    /\ \E i \in Tasks : \E result \in ExecuteResults(task[i].tool) :
           execute_returns(i, result)
    /\ UNCHANGED <<proxyVars, agentVars, ended, schemaVars>>

Raises ==
    /\ \E i \in Tasks, e \in Faults : execute_raises(i, e)
    /\ UNCHANGED <<proxyVars, agentVars, ended, schemaVars>>

TimesOut ==
    /\ \E i \in Tasks : wait_for_timeout(i)
    /\ UNCHANGED <<proxyVars, agentVars, ended, schemaVars>>

Cancelled ==
    /\ \E i \in Tasks : wait_for_cancelled(i)
    /\ UNCHANGED <<proxyVars, agentVars, ended, schemaVars>>

Resets ==
    /\ reset_stats
    /\ UNCHANGED <<proxyVars, agentVars, ended, schemaVars>>

Init == InitRegistry /\ IdleRequest /\ IdleProxy /\ IdleReply /\ IdleAgent /\ NoneEnded /\ IdleSchemas

Next ==
    \/ Dispatch
    \/ Returns
    \/ Raises
    \/ TimesOut
    \/ Cancelled
    \/ Resets

Spec == Init /\ [][Next]_vars

NextValidation ==
    \/ DispatchAny
    \/ Returns
    \/ Raises

SpecValidation == Init /\ [][NextValidation]_vars

(***************************************************************************)
(* The dispatches of the concurrent tasks with the history of how each     *)
(* safe_execute ended, and no reset.                                       *)
(***************************************************************************)
DispatchCounted ==
    /\ \E i \in Tasks, r \in Requests : execute_tool(i, r[1], r[2])
    /\ UNCHANGED <<proxyVars, agentVars, ended, schemaVars>>

ReturnsCounted ==
    /\ \E i \in Tasks : \E result \in ExecuteResults(task[i].tool) :
           /\ execute_returns(i, result)
           /\ Ended(task[i].tool, result.status)
    /\ UNCHANGED <<proxyVars, agentVars, schemaVars>>

RaisesCounted ==
    /\ \E i \in Tasks, e \in Faults :
           /\ execute_raises(i, e)
           /\ Ended(task[i].tool, IF e.cls = "TimeoutError" THEN "timeout" ELSE "error")
    /\ UNCHANGED <<proxyVars, agentVars, schemaVars>>

TimesOutCounted ==
    /\ \E i \in Tasks : wait_for_timeout(i)
    /\ UNCHANGED <<proxyVars, agentVars, ended, schemaVars>>

CancelledCounted ==
    /\ \E i \in Tasks : wait_for_cancelled(i) /\ Ended(task[i].tool, "timeout")
    /\ UNCHANGED <<proxyVars, agentVars, schemaVars>>

NextStats ==
    \/ DispatchCounted
    \/ ReturnsCounted
    \/ RaisesCounted
    \/ TimesOutCounted
    \/ CancelledCounted

SpecStats == Init /\ [][NextStats]_vars

(***************************************************************************)
(* The registry's catalog is changed while one caller dispatches: tools    *)
(* are registered, in their own or another category, and unregistered.     *)
(***************************************************************************)
\* the objects registered: the calculator again, another CalculatorTool,
\* another JSONParseTool; in the category math or the default category
RegisterTools == {"calculator", "calculator_2", "json_parse_2"}
RegisterCategories == {"math", "general"}

Registers ==
    /\ \E tool \in RegisterTools, category \in RegisterCategories :
           register(tool, category)
    /\ UNCHANGED <<proxyVars, agentVars, ended, schemaVars>>

Unregisters ==
    /\ \E name \in {"calculator", "unknown_tool"} : unregister(name)
    /\ UNCHANGED <<proxyVars, agentVars, ended, schemaVars>>

CatalogRequests ==
    { <<"calculator", <<<<"expression", "str">>>> >>,
      <<"json_parse", <<<<"json_string", "str">>>> >> }

DispatchOne ==
    /\ calls < MaxCatalogCalls
    /\ \E r \in CatalogRequests : execute_tool(1, r[1], r[2])
    /\ UNCHANGED <<proxyVars, agentVars, ended, schemaVars>>

NextCatalog ==
    \/ Registers
    \/ Unregisters
    \/ DispatchOne
    \/ Returns
    \/ Resets

SpecCatalog == Init /\ [][NextCatalog]_vars

\* the production proxy processing one request
ProxyStarts == process_request /\ UNCHANGED <<registryVars, agentVars, ended, schemaVars>>
ProxyPassesThrough ==
    /\ \E reply \in NormalReplies : _passthrough_to_vllm(reply)
    /\ UNCHANGED <<registryVars, agentVars, ended, schemaVars>>
ProxyTries1 == _try_priority_1 /\ UNCHANGED <<registryVars, agentVars, ended, schemaVars>>
ProxyTries2 == _try_priority_2 /\ UNCHANGED <<registryVars, agentVars, ended, schemaVars>>
ProxyTries3 == _try_priority_3 /\ UNCHANGED <<registryVars, agentVars, ended, schemaVars>>
ProxyTries4 == _try_priority_4 /\ UNCHANGED <<registryVars, agentVars, ended, schemaVars>>
ProxyNativeReply ==
    /\ \E reply \in ToolCallReplies : native_response(reply)
    /\ UNCHANGED <<registryVars, agentVars, ended, schemaVars>>
ProxyDecides3 ==
    /\ \E reply \in RoutingReplies : priority_3_decision(reply)
    /\ UNCHANGED <<registryVars, agentVars, ended, schemaVars>>
ProxyDecides4 ==
    /\ \E reply \in RoutingReplies : priority_4_decision(reply)
    /\ UNCHANGED <<registryVars, agentVars, ended, schemaVars>>
ProxyNormalReply ==
    /\ \E reply \in NormalReplies : _get_normal_response(reply)
    /\ UNCHANGED <<registryVars, agentVars, ended, schemaVars>>
ProxyBackendReply ==
    /\ \E reply \in BackendReplies : _execute_backend_tool(reply)
    /\ UNCHANGED <<registryVars, agentVars, ended, schemaVars>>

InitProxySpec == InitRegistry /\ InitProxy /\ IdleReply /\ IdleAgent /\ NoneEnded /\ IdleSchemas

NextProxy ==
    \/ ProxyStarts
    \/ ProxyPassesThrough
    \/ ProxyTries1
    \/ ProxyTries2
    \/ ProxyTries3
    \/ ProxyTries4
    \/ ProxyNativeReply
    \/ ProxyDecides3
    \/ ProxyDecides4
    \/ ProxyNormalReply
    \/ ProxyBackendReply

SpecProxy == InitProxySpec /\ [][NextProxy]_vars

\* the agent backend processing one model reply
ExecuteStatuses == {"success", "error", "partial"}

AgentStarts == process_llm_response /\ UNCHANGED <<registryVars, proxyVars, ended, schemaVars>>
AgentNativeCall == native_tool_call /\ UNCHANGED <<registryVars, proxyVars, ended, schemaVars>>
AgentNativeDone ==
    /\ \E status \in ExecuteStatuses : native_tool_done(status)
    /\ UNCHANGED <<registryVars, proxyVars, ended, schemaVars>>
AgentNativeEnds == native_loop_ends /\ UNCHANGED <<registryVars, proxyVars, ended, schemaVars>>
AgentFallbackCheck == fallback_check /\ UNCHANGED <<registryVars, proxyVars, ended, schemaVars>>
AgentFallbackCall == fallback_tool_call /\ UNCHANGED <<registryVars, proxyVars, ended, schemaVars>>
AgentFallbackDone ==
    /\ \E status \in ExecuteStatuses : fallback_tool_done(status)
    /\ UNCHANGED <<registryVars, proxyVars, ended, schemaVars>>
AgentFallbackEnds == fallback_loop_ends /\ UNCHANGED <<registryVars, proxyVars, ended, schemaVars>>

InitAgentSpec == InitRegistry /\ IdleRequest /\ IdleProxy /\ InitAgent /\ NoneEnded /\ IdleSchemas

NextAgent ==
    \/ AgentStarts
    \/ AgentNativeCall
    \/ AgentNativeDone
    \/ AgentNativeEnds
    \/ AgentFallbackCheck
    \/ AgentFallbackCall
    \/ AgentFallbackDone
    \/ AgentFallbackEnds

SpecAgent == InitAgentSpec /\ [][NextAgent]_vars

\* the bridge before a request: every request of BridgeRequests, zeroed stats
InitBridge ==
    /\ request \in BridgeRequests
    /\ ppc = "idle"
    /\ idx = 1
    /\ tool_name = ""
    /\ parameters = << >>
    /\ response = NoResponse
    /\ proxy_stats = [total_requests |-> 0, tool_calls_success |-> 0,
                      direct_responses |-> 0, tool_execution_success |-> 0]
    /\ tried = << >>
    /\ outcomes = << >>
    /\ backend_calls = 0
    /\ backend_results = << >>
    /\ InitRegistry /\ IdleReply /\ IdleAgent /\ NoneEnded /\ IdleSchemas

\* the bridge of proxy_with_tools processing one request; its
\* _passthrough_to_vllm returns the reply of vLLM or an error dictionary,
\* as that of the production proxy does
NextBridge ==
    \/ process_request_bridge /\ UNCHANGED <<registryVars, agentVars, ended, schemaVars>>
    \/ /\ \E reply \in RoutingReplies : _try_structured_bridge(reply)
       /\ UNCHANGED <<registryVars, agentVars, ended, schemaVars>>
    \/ /\ \E reply \in BackendReplies : _execute_local_tool(reply)
       /\ UNCHANGED <<registryVars, agentVars, ended, schemaVars>>
    \/ /\ \E reply \in NormalReplies : final_response(reply)
       /\ UNCHANGED <<registryVars, agentVars, ended, schemaVars>>
    \/ /\ \E reply \in NormalReplies : _get_normal_response_bridge(reply)
       /\ UNCHANGED <<registryVars, agentVars, ended, schemaVars>>
    \/ ProxyPassesThrough

SpecBridge == InitBridge /\ [][NextBridge]_vars

\* the tool calls of the first reply: calculator is in the registry,
\* get_weather is neither there nor a method of the legacy tools
InitChat ==
    /\ llm_result \in
           [has_choices : {TRUE},
            tool_calls :
                SeqsUpTo([id : {"call_1", "call_2"},
                          name : {"calculator", "get_weather"},
                          arguments : ArgumentKinds \ {"object_mistyped"}],
                         MaxToolCalls)]
    /\ llm_response = << >>
    /\ IdleAgent
    /\ InitRegistry /\ IdleRequest /\ IdleProxy /\ NoneEnded /\ IdleSchemas

\* app_v2.chat processing one request
NextChat ==
    \/ chat /\ UNCHANGED <<registryVars, proxyVars, ended, schemaVars>>
    \/ /\ \E reply \in {"ok", "exception"} : chat_model_reply(reply)
       /\ UNCHANGED <<registryVars, proxyVars, ended, schemaVars>>
    \/ chat_tool_call /\ UNCHANGED <<registryVars, proxyVars, ended, schemaVars>>
    \/ /\ \E status \in ExecuteStatuses \cup {"timeout", "raises"} : chat_tool_done(status)
       /\ UNCHANGED <<registryVars, proxyVars, ended, schemaVars>>
    \/ /\ \E reply \in {"ok", "exception"} : chat_followup_reply(reply)
       /\ UNCHANGED <<registryVars, proxyVars, ended, schemaVars>>

SpecChat == InitChat /\ [][NextChat]_vars

\* the registry of the category tools: tools are registered and their
\* schemas exported with every combination of the filters
NextSchemas ==
    \/ /\ \E tool \in SafetyTools : register_tool(tool)
       /\ UNCHANGED <<registryVars, proxyVars, agentVars, ended>>
    \/ /\ \E category \in {None, "system"},
             safety_level \in {None, "safe", "dangerous"},
             max_safety_level \in {"safe", "restricted", "dangerous"} :
               get_openai_schemas(category, safety_level, max_safety_level)
       /\ UNCHANGED <<registryVars, proxyVars, agentVars, ended>>

SpecSchemas == Init /\ [][NextSchemas]_vars

(***************************************************************************)
(* Properties of the registry's safe dispatch.                             *)
(***************************************************************************)
InFlight(t) == {i \in Tasks : task[i].pc \in {"executing", "cancelling"} /\ task[i].tool = t}

Contains(message, piece) == \E k \in 1..Len(message) : message[k] = piece

\* the JSON type of a value of a Python class
JsonType(cls) ==
    CASE cls = "str" -> "string"
      [] cls \in {"int", "float"} -> "number"
      [] cls = "bool" -> "boolean"
      [] cls = "list" -> "array"
      [] cls = "dict" -> "object"
      [] OTHER -> "null"

MissesRequired(name, params) ==
    \E r \in 1..Len(get_schema(name).required) :
        ~HasKey(params, get_schema(name).required[r])

WrongDeclaredType(name, params) ==
    \E k \in 1..Len(params) :
        /\ params[k][1] \in Keys(name)
        /\ get_schema(name).properties[params[k][1]] # JsonType(params[k][2])

\* C1: for every registered tool, success_count + error_count <= usage_count
\* in every reachable state, whatever dispatches and resets interleave.
C1_CountsWithinUsage ==
    \A t \in values(_tools) : _success_count[t] + _error_count[t] <= _usage_count[t]

\* C2: a call that misses a required parameter, or gives a declared parameter
\* a value of the wrong declared type, returns an Error result without
\* calling execute and leaves the tool's four statistics unchanged.
C2_InvalidParamsRejected ==
    [][\A name \in ToolNames : \A params \in Kwargs(Keys(name)) :
          ( /\ MissesRequired(name, params) \/ WrongDeclaredType(name, params)
            /\ execute_tool(1, name, params) )
          => /\ task'[1].pc = "returned"
             /\ task'[1].result.status = "error"
             /\ UNCHANGED <<stats, execute_entered>>]_vars

\* C3: a fault raised by execute is returned as an Error result whose error
\* is the fault's message, error_count grows by one, and the caller gets a
\* result, not an exception.
C3_FaultBecomesError ==
    [][\A i \in Tasks : \A e \in Faults :
          execute_raises(i, e)
          => /\ task'[i].pc = "returned"
             /\ task'[i].result.status = "error"
             /\ task'[i].result.error = e.msg
             /\ _error_count' = [_error_count EXCEPT ![task[i].tool] = @ + 1]]_vars

C5_UnknownToolNotFound ==
    [][\A i \in Tasks :
          ( /\ task[i].pc \in {"idle", "returned"}
            /\ task'[i] # task[i]
            /\ task'[i].name \notin DOMAIN _tools )
          => /\ task'[i].pc = "returned"
             /\ task'[i].result.status = "error"
             /\ Contains(task'[i].result.error, "not found")
             /\ UNCHANGED <<stats, execute_entered>>]_vars

C5_Witness ==
    \E i \in Tasks :
        /\ task[i].pc = "returned"
        /\ task[i].name = "unknown_tool"
        /\ task[i].result.status = "error"
        /\ \E t \in values(_tools) : _usage_count[t] > 0

\* C6: when execute returns a result, success_count alone grows if its status
\* is Success or Partial, error_count alone grows if it is Error, and the
\* dispatch returns that same result.
C6_CompletionCounted ==
    [][\A i \in Tasks : \A result \in ExecuteResults(task[i].tool) :
          execute_returns(i, result)
          => /\ result.status \in {"success", "partial"}
                => /\ _success_count' = [_success_count EXCEPT ![task[i].tool] = @ + 1]
                   /\ _error_count' = _error_count
             /\ result.status = "error"
                => /\ _error_count' = [_error_count EXCEPT ![task[i].tool] = @ + 1]
                   /\ _success_count' = _success_count
             /\ task'[i].result = result]_vars

\* C7: with no reset, once every dispatch of a tool has returned, usage_count
\* equals the number K of dispatches that passed validation, and so does
\* success_count + error_count; while some are suspended, each of them is
\* counted in usage_count and not yet in the other two.
C7_NoLostUpdates ==
    resets = 0 =>
        \A t \in values(_tools) :
            /\ _usage_count[t] = execute_entered[t]
            /\ _success_count[t] + _error_count[t] + Cardinality(InFlight(t))
                  = execute_entered[t]

C7_Witness ==
    /\ resets = 0
    /\ \E t \in values(_tools) :
          /\ execute_entered[t] >= 2
          /\ InFlight(t) = {}
          /\ \A i \in Tasks : task[i].pc = "returned" /\ task[i].tool = t
          /\ _error_count[t] >= 1

(***************************************************************************)
(* Properties of the production proxy's strategy chain.                    *)
(***************************************************************************)
NoSuccess == \A n \in 1..Len(outcomes) : outcomes[n] # "success"

\* C8: the strategies are called in the order 1, 2, 3, 4 without skipping;
\* a strategy is called only after every earlier one failed or raised; a
\* strategy that succeeds is the last one called and its result is the
\* response; the error is returned only after all four were called.
C8_StrategiesInPriorityOrder ==
    /\ tried = [n \in 1..Len(tried) |-> n]
    /\ Len(tried) - Len(outcomes) \in {0, 1}
    /\ \A n \in 1..Len(outcomes) :
          outcomes[n] = "success"
          => /\ n = Len(tried)
             /\ ppc = "done"
             /\ response.by = tried[n]
             /\ response.kind \in {"vllm_tool_calls", "normal", "tool_calls"}
    /\ response.by # 0
          => response.by <= Len(outcomes) /\ outcomes[response.by] = "success"
    /\ (ppc = "done" /\ request.tools # << >> /\ NoSuccess) => Len(tried) = 4

C8_Witness ==
    /\ ppc = "done"
    /\ outcomes = <<"raised", "failed", "success">>
    /\ tried = <<1, 2, 3>>
    /\ response.by = 3

\* C10: when all four strategies failed, the request proceeds as a normal
\* completion without a tool; the caller is not given an error.
C10_ExhaustedIsNoTool ==
    (ppc = "done" /\ Len(outcomes) = 4 /\ NoSuccess)
    => /\ response.kind \in {"normal", "passthrough"}
       /\ chat_completions = 200

(***************************************************************************)
(* Properties of the agent backend's response processing.                  *)
(***************************************************************************)
HasNativeCall ==
    /\ llm_result.has_choices
    /\ \E n \in 1..Len(llm_result.tool_calls) :
          /\ llm_result.tool_calls[n].name \in DOMAIN _tools
          /\ llm_result.tool_calls[n].arguments \in WellFormedArguments

\* C9: when the reply holds a native tool call with well-formed arguments
\* for a registered tool, the fallback patterns are never evaluated and no
\* tool is executed from a text match.
C9_NativeCallSkipsFallback ==
    HasNativeCall
    => /\ pattern_evaluated = 0
       /\ apc \notin {"fallback", "fallback_execute"}
       /\ \A n \in 1..Len(agent_executed) : agent_executed[n][1] # "fallback"

C9_Witness ==
    /\ HasNativeCall
    /\ apc = "returned"
    /\ \E n \in 1..Len(llm_response) : llm_response[n].tool_name = "calculator"
    /\ \A n \in 1..Len(tools_used) : tools_used[n].status = "error"
    /\ Len(tools_used) = 1

(***************************************************************************)
(* Properties of the constrained routing query.                            *)
(***************************************************************************)
\* C11: a routing reply that names a tool the request does not offer is a
\* strategy failure: no tool execution and no synthesized tool_call names a
\* tool outside the request's tools list.
C11_OnlyOfferedToolsRouted ==
    /\ ppc = "execute" => tool_name \in names_of(request.tools)
    /\ response.kind = "tool_calls" => response.tool_name \in names_of(request.tools)

\* the replies with which the model call of the routing query fails
FailedRoutingKinds == {"exception", "http_error", "no_content", "not_json"}

\* C12: when the model call of the routing query fails (exception or timeout,
\* non-200 status, no content, or content that is not JSON), the decision of
\* the strategy is the result of the pattern detection on the user text: the
\* tool it finds is executed with its parameters, and a plain completion
\* follows only when it finds none.
C12_RoutingFailureFallsToPatterns ==
    [][\A reply \in RoutingReplies :
          ( /\ reply.kind \in FailedRoutingKinds
            /\ request.messages # << >>
            /\ request.messages[Len(request.messages)].content # Parts
            /\ priority_3_decision(reply) )
          => LET decision == _fallback_pattern_detection(
                                 request.messages[Len(request.messages)].content,
                                 request.tools)
             IN  IF decision[1]
                 THEN /\ ppc' = "execute"
                      /\ tool_name' = decision[2]
                      /\ parameters' = decision[3]
                 ELSE ppc' = "normal"]_vars

(***************************************************************************)
(* Properties of the boundary between model-produced tool calls and the    *)
(* tools.                                                                  *)
(***************************************************************************)
\* C13: a tool's execute is entered only with parameters that pass
\* validate_params against that tool's schema, on the agent backend's paths
\* as on the registry's.
C13_ExecuteOnlyAfterValidation ==
    \A n \in 1..Len(agent_executed) :
        validate_params(agent_executed[n][2], agent_executed[n][3]) = NoError

(***************************************************************************)
(* Properties of the output synthesized after a tool failed.               *)
(***************************************************************************)
CarriesText(text, piece) ==
    \E k \in 0..(Len(text) - Len(piece)) : SubSeq(text, k + 1, k + Len(piece)) = piece

\* C14: when a tool execution of the request ended in Error or Timeout, the
\* output returned for the request contains that result's error text.
C14_ToolErrorCarried ==
    ppc = "done"
    => \A n \in 1..Len(backend_results) :
          backend_results[n].status \in {"error", "timeout"}
          => CarriesText(response.error, backend_results[n].error)

(***************************************************************************)
(* Properties of the registry's catalog.                                   *)
(***************************************************************************)
\* C15: registering a tool under a name that is already registered leaves
\* what get_stats reports for that name (usage_count, success_count,
\* error_count, last_used) as it was immediately before.
C15_ReregisterKeepsStats ==
    [][\A tool \in RegisterTools, category \in RegisterCategories :
          ( /\ NameOf(tool) \in DOMAIN _tools
            /\ register(tool, category) )
          => get_stats(NameOf(tool))' = get_stats(NameOf(tool))]_vars

\* C16: registering a tool under a name that is already registered, in any
\* category, makes get_tool(name) return the tool just registered and leaves
\* the length of list_tools() as it was.
C16_ReregisterReplacesEntry ==
    [][\A tool \in RegisterTools, category \in RegisterCategories :
          ( /\ NameOf(tool) \in DOMAIN _tools
            /\ register(tool, category) )
          => /\ get_tool(NameOf(tool))' = tool
             /\ Cardinality(list_tools)' = Cardinality(list_tools)]_vars

C16_Witness ==
    /\ last_call.op = "register"
    /\ last_call.name = "calculator"
    /\ get_tool("calculator") = "calculator_2"
    /\ InList("calculator", list_tools_in("general"))
    /\ Cardinality(list_tools) = Cardinality(ToolNames)

\* C17: unregister(name) returns true exactly when name was registered;
\* afterwards get_tool(name) is None and name is neither in list_tools() nor
\* in the list of any category; for a name that was not registered the
\* catalog and the category lists are unchanged.
C17_UnregisterRemovesEverywhere ==
    [][\A name \in ToolNames \cup {"unknown_tool"} :
          unregister(name)
          => /\ last_call'.returned = (name \in DOMAIN _tools)
             /\ get_tool(name)' = None
             /\ (name \notin list_tools)'
             /\ \A c \in Categories : (~InList(name, list_tools_in(c)))'
             /\ name \notin DOMAIN _tools => UNCHANGED <<_tools, _categories>>]_vars

C17_Witness ==
    /\ last_call = [op |-> "unregister", name |-> "calculator", returned |-> TRUE]
    /\ "general" \in DOMAIN _categories
    /\ list_tools_in("general") = << >>
    /\ list_tools_in("math") = << >>
    /\ get_tool("calculator") = None

\* what get_stats reports for a tool that was never used
ZeroStats(name) ==
    [name |-> name, usage_count |-> 0, success_count |-> 0, error_count |-> 0,
     last_used |-> 0, success_rate |-> <<0, 1>>]

\* C18: reset_stats makes get_stats report zero counters and no last_used for
\* every registered tool, and leaves the registered tools and the category
\* lists unchanged.
C18_ResetZeroesStats ==
    [][reset_stats
       => /\ \A name \in DOMAIN _tools : get_stats(name)' = ZeroStats(name)
          /\ UNCHANGED <<_tools, _categories>>]_vars

C18_Witness ==
    /\ resets = 1
    /\ task[1].pc = "returned"
    /\ task[1].result.status = "success"
    /\ task[1].tool = "calculator_2"
    /\ get_tool("calculator") = "calculator_2"
    /\ execute_entered["calculator_2"] = 1
    /\ get_stats("calculator") = ZeroStats("calculator")

(***************************************************************************)
(* Properties of the statistics get_stats reports.                         *)
(***************************************************************************)
\* C19: once N invocations of a registered tool have ended in Success and M
\* in Error or Timeout (a fault included), with N + M > 0, none is still
\* running and no reset was made, get_stats reports success_count = N and a
\* success_rate with success_rate * (N + M) = N.
C19_SuccessRate ==
    \A name \in DOMAIN _tools :
        LET tool == _tools[name]
            N == ended[tool][1]
            M == ended[tool][2]
            rate == get_stats(name).success_rate
        IN  (N + M > 0 /\ InFlight(tool) = {} /\ resets = 0)
            => /\ get_stats(name).success_count = N
               /\ rate[1] * (N + M) = N * rate[2]

\* C20: execute_tool("calculator", {}) is rejected by the validation as
\* missing the required parameter expression: it returns an Error result and
\* CalculatorTool.execute is not entered.
C20_EmptyCalculatorCallRejected ==
    [][execute_tool(1, "calculator", << >>)
       => /\ task'[1].pc = "returned"
          /\ task'[1].result.status = "error"
          /\ task'[1].result.error = <<"Missing required parameter: ", "expression">>
          /\ UNCHANGED execute_entered]_vars

(***************************************************************************)
(* Properties of the pattern-matching strategy.                            *)
(***************************************************************************)
\* C21: with only the pattern-matching strategy deciding (the routing query
\* did not yield a JSON decision) and calculator among the offered tools,
\* the user text "25 gobhagi 4" (the Korean word for "times" between the
\* operands) yields the decision to invoke calculator with the expression
\* "25 * 4".
C21_KoreanMultiplication ==
    [][\A reply \in RoutingReplies :
          ( /\ reply.kind = "not_json"
            /\ "calculator" \in names_of(request.tools)
            /\ request.messages # << >>
            /\ request.messages[Len(request.messages)].content = "25 gobhagi 4"
            /\ priority_3_decision(reply) )
          => /\ ppc' = "execute"
             /\ tool_name' = "calculator"
             /\ parameters' = <<"expression", "25", "*", "4">>]_vars

\* the matchers of the bridge's pattern detection, in the order they are tried
MatcherOrder == <<"time_now", "calculator", "system_info", "file_list">>

\* C22: in the pattern detection of the bridge the matchers are tried in
\* the order time_now, calculator, system_info, file_list, each only when
\* its tool is offered; the decision names the tool of the first matcher
\* that fires, and it is not to invoke a tool exactly when no matcher fires.
C22_FirstMatcherDecides ==
    [][\A reply \in RoutingReplies :
          (reply.kind \in FailedRoutingKinds /\ _try_structured_bridge(reply))
          => LET text == request.messages[Len(request.messages)].content
                 firing == {k \in 1..Len(MatcherOrder) :
                               /\ MatcherOrder[k] \in names_of(request.tools)
                               /\ fires(MatcherOrder[k], text)}
             IN  IF firing = {}
                 THEN ppc' = "normal"
                 ELSE /\ ppc' = "execute"
                      /\ tool_name' =
                           MatcherOrder[CHOOSE k \in firing : \A j \in firing : k <= j]]_vars

(***************************************************************************)
(* Properties of the decisions the strategies of the production proxy      *)
(* execute.                                                                *)
(***************************************************************************)
\* C23: the tool name and the parameters of a tool execution are produced
\* by the same strategy: both are the routing reply's, or both are the
\* pattern detection's, never the tool name of one with the parameters of
\* the other.
C23_DecisionFromOneStrategy ==
    ppc = "execute"
    => \/ \E reply \in RoutingReplies :
             /\ reply.kind = "use_tool"
             /\ tool_name = reply.tool_name
             /\ parameters = reply.parameters
       \/ LET decision == _fallback_pattern_detection(
                              request.messages[Len(request.messages)].content,
                              request.tools)
          IN  /\ decision[1]
              /\ tool_name = decision[2]
              /\ parameters = decision[3]

(***************************************************************************)
(* Properties of the chat turn of app_v2.                                  *)
(***************************************************************************)
\* the tool call a message of role tool answers: the messages before the
\* tool messages are the system prompt, the user message and the model's
\* message
AnsweredCall(n) == llm_result.tool_calls[n - 3]

\* C24: a native tool call whose arguments are not well-formed JSON makes
\* the native strategy fail silently: the tool is not executed with it and
\* no error result, such as a message of role tool that reports the error,
\* is produced for it.
C24_MalformedArgumentsFallThrough ==
    \A n \in 1..Len(messages) :
        messages[n].role = "tool" => AnsweredCall(n).arguments # "malformed"

\* C25: within one chat turn the routing (the first model call) completes
\* before a dispatch starts, and every dispatch completes before the
\* synthesis: when the follow-up model call is issued, each tool call of the
\* turn has produced exactly one message of role tool that carries the
\* call's tool_call_id, and these messages stand in call order.
C25_DispatchBeforeSynthesis ==
    /\ apc \in {"calls", "execute", "followup"}
       => /\ Len(messages) >= 3
          /\ messages[3].role = "assistant"
    /\ apc = "followup"
       => /\ Len(messages) = 3 + Len(llm_result.tool_calls)
          /\ \A n \in 1..Len(llm_result.tool_calls) :
                /\ messages[3 + n].role = "tool"
                /\ messages[3 + n].tool_call_id = llm_result.tool_calls[n].id

\* the follow-up is issued after two calls with different ids: the first
\* was dispatched and timed out, the second had malformed arguments
C25_Witness ==
    /\ apc = "followup"
    /\ Len(llm_result.tool_calls) = 2
    /\ llm_result.tool_calls[1].id # llm_result.tool_calls[2].id
    /\ llm_result.tool_calls[2].arguments = "malformed"
    /\ Len(agent_executed) = 1
    /\ messages[4].content = "timeout"

\* the bridge of proxy_with_tools goes through its phases in order: the
\* routing query, then the dispatch and its completion, then the synthesis
BridgePhasesInOrder ==
    \E n \in 0..4 : tried = SubSeq(<<"routing", "dispatch", "dispatched", "synthesis">>, 1, n)

(***************************************************************************)
(* Properties of the synthesized tool_calls envelope.                      *)
(***************************************************************************)
\* what a JSON decoder makes of the arguments text: the dictionary, or the
\* failure of the decoder for text that is not JSON
DecodeJson(text) ==
    IF text = <<"{", "}">>
    THEN << >>
    ELSE IF /\ Len(text) >= 9
            /\ text[1] = "{" /\ text[2] = "\"" /\ text[4] = "\"" /\ text[5] = ":"
            /\ text[6] = "\"" /\ text[Len(text) - 1] = "\"" /\ text[Len(text)] = "}"
    THEN <<text[3]>> \o SubSeq(text, 7, Len(text) - 2)
    ELSE <<"JSONDecodeError">>

Counters(tool) == <<_usage_count[tool], _success_count[tool], _error_count[tool]>>

\* the counters of a tool after the step
CountersNext(tool) == <<_usage_count'[tool], _success_count'[tool], _error_count'[tool]>>

\* C27: while one execute_tool call is suspended inside tool A's execute,
\* a call for another tool B starts and completes on its own: each of its
\* steps leaves A's counters and A's call as they are and changes B's
\* counters by that step alone (a start counts one use; a completion counts
\* one success or one error, as the result it returns says).
C27_DispatchesIndependent ==
    [][\A i, j \in Tasks :
          ( /\ i # j
            /\ task[j].pc \in {"executing", "cancelling"}
            /\ task'[i] # task[i]
            /\ task'[i].tool # None
            /\ task'[i].tool # task[j].tool )
          => LET A == task[j].tool
                 B == task'[i].tool
             IN  /\ task'[j] = task[j]
                 /\ CountersNext(A) = Counters(A)
                 /\ task'[i].pc = "executing"
                    => CountersNext(B) = <<_usage_count[B] + 1, _success_count[B],
                                        _error_count[B]>>
                 /\ (task'[i].pc = "returned" /\ task[i].pc = "executing")
                    => CountersNext(B) =
                          IF task'[i].result.status = "success"
                          THEN <<_usage_count[B], _success_count[B] + 1, _error_count[B]>>
                          ELSE <<_usage_count[B], _success_count[B], _error_count[B] + 1>>]_vars

\* calculator's execute is still suspended; json_parse was dispatched after
\* it and has returned a success
C27_Witness ==
    /\ task[1].pc = "executing"
    /\ task[1].tool = "calculator"
    /\ task[2].pc = "returned"
    /\ task[2].tool = "json_parse"
    /\ task[2].result.status = "success"
    /\ _last_used["json_parse"] > _last_used["calculator"]
    /\ Counters("calculator") = <<1, 0, 0>>
    /\ Counters("json_parse") = <<1, 1, 0>>

(***************************************************************************)
(* Properties of the tool executions of one request.                       *)
(***************************************************************************)
\* C28: one request to the production proxy causes at most one call of
\* _execute_backend_tool, whichever strategies are tried and whatever each
\* of them returns.
C28_AtMostOneBackendExecution == backend_calls <= 1

(***************************************************************************)
(* Properties of the category lists.                                       *)
(***************************************************************************)
\* the (category, position) pairs that the loop of the /tools endpoint
\* visits: every entry of list_tools(c) for every category c
ListedEntries ==
    UNION { {<<c, k>> : k \in 1..Len(list_tools_in(c))} : c \in DOMAIN _categories }

\* C29: after any sequence of register and unregister calls every
\* registered name is in exactly one category list and every name in a
\* category list is registered, so that listing list_tools(c) for every
\* category c yields each registered tool once and as many entries as
\* list_tools() has names.
C29_OneCategoryPerTool ==
    /\ \A name \in list_tools :
          Cardinality({c \in DOMAIN _categories : InList(name, list_tools_in(c))}) = 1
    /\ \A c \in DOMAIN _categories :
          \A k \in 1..Len(list_tools_in(c)) : list_tools_in(c)[k] \in list_tools
    /\ Cardinality(ListedEntries) = Cardinality(list_tools)

(***************************************************************************)
(* Properties of the exported schemas.                                     *)
(***************************************************************************)
\* the order safe < restricted < dangerous
SafetyRank(level) ==
    CASE level = "safe" -> 1
      [] level = "restricted" -> 2
      [] level = "dangerous" -> 3

\* C30: get_openai_schemas never returns the schema of a tool whose safety
\* level is above max_safety_level, whatever its category, safety_level and
\* max_safety_level arguments are.
C30_ExportWithinMaxSafetyLevel ==
    exported.max_safety_level # None
    => \A k \in 1..Len(exported.schemas) :
          \A n \in 1..Len(registry_tools) :
              registry_tools[n].name = exported.schemas[k]
              => SafetyRank(registry_tools[n].safety_level)
                    <= SafetyRank(exported.max_safety_level)

====
